---- MODULE Spec2Model ----
(***************************************************************************)
(* Model of the Icarus portfolio forecasting tool: the calculator          *)
(* (src/services/calculator.py), the data manager and its database         *)
(* connection (src/services/data_manager.py, database_connection.py), the  *)
(* validators (src/utils/validators.py) and the calculate_scenarios        *)
(* callback (src/app.py).                                                  *)
(*                                                                         *)
(* PortfolioCalculator holds no fields; each of its methods is a function  *)
(* of its arguments.  The state of the model is the last call made: the    *)
(* method, its arguments and its outcome (a returned value or the          *)
(* exception that escaped), the argument objects and the calculator as the *)
(* call left them, the database and the clock the call met, the trace of   *)
(* what it called, and the errors it caught without raising them again.    *)
(*                                                                         *)
(* Numbers.  Python floats are modelled by exact values.  The only         *)
(* irrational operation of the code is (1 + rate/100) ** (days/365); its   *)
(* value is kept in the normal form  c * B^(k/365)  with B the base,       *)
(* 0 <= k < 365 the day count modulo the year and c = B^(days div 365) an  *)
(* exact rational.  A number is a set of such terms with distinct (r, k),  *)
(* the term with k = 0 being the rational part.  Rounding, infinities and  *)
(* NaN as computed values are outside the model; a NaN rate handed to the  *)
(* validators is an input of its own (NaNRate).                            *)
(*                                                                         *)
(* Spec makes one call at a time.  ConcurrentSpec runs two calls of        *)
(* calculate_all_scenarios_excel on the one calculator at the same time,   *)
(* a loop iteration per step, each call with a frame of its own in         *)
(* requests.                                                               *)
(***************************************************************************)
EXTENDS Integers, Sequences, FiniteSets, TLC

\* ---------------------------------------------------------------- bounds
\* The largest magnitude a float power may have before Python raises
\* OverflowError; stands for sys.float_info.max at the scale of the model.
FloatMax == 8

\* The longest cashflow list passed to the calculator.
MaxCashflows == 2

\* ------------------------------------------------------------- constants
\* days_diff / 365
YearDays == 365

\* annual_rate / 100
PercentDivisor == 100

\* ------------------------------------------------------------ input sets
\* Dates are day ordinals; NoDate is Python's None for an Optional[date].
NoDate == -1

Dates == {0, 200, 365}

Rates == {-150, -100, -50, 0, 7, 15, 900}

BeginningMVs == {4}

Amounts == {-2, 0, 3}

Months == {1}

Descriptions == {"cf"}

ScenarioNames == {"downside", "base", "upside", "stress"}

\* the rates tried for each scenario name
ScenarioRates ==
    [downside |-> {-150, -50}, base |-> {7}, upside |-> {15, 900},
     stress |-> {7}]

\* the cashflows a list is made of, as <<amount, cashflow_date>>: an outflow
\* and an inflow on day 0 and on day 200, a zero amount, an undated inflow
ListCashflows ==
    {<<-2, 0>>, <<-2, 200>>, <<0, 200>>, <<3, 0>>, <<3, 200>>, <<3, NoDate>>}

\* the start dates of the calls that take a list of cashflows
ListStarts == {0, 200}

\* ------------------------------------------------------------- rationals
Abs(x) == IF x < 0 THEN -x ELSE x

RECURSIVE GCD(_, _)
GCD(a, b) == IF b = 0 THEN a ELSE GCD(b, a % b)

\* the rational n/d in lowest terms with a positive denominator (d # 0)
Rat(n, d) ==
    LET g == GCD(Abs(n), Abs(d))
        s == IF d < 0 THEN -1 ELSE 1
    IN  [n |-> (s * n) \div g, d |-> (s * d) \div g]

RAdd(x, y) ==
    LET g == GCD(x.d, y.d)
    IN  Rat(x.n * (y.d \div g) + y.n * (x.d \div g), (x.d \div g) * y.d)

RMul(x, y) == Rat(x.n * y.n, x.d * y.d)

RInv(x) == Rat(x.d, x.n)

RECURSIVE RPowNat(_, _)
RPowNat(x, e) == IF e = 0 THEN Rat(1, 1) ELSE RMul(x, RPowNat(x, e - 1))

\* x ** e for an integer e (x # 0 when e < 0)
RPowInt(x, e) == IF e >= 0 THEN RPowNat(x, e) ELSE RPowNat(RInv(x), -e)

\* |x| > m for an integer m
RAbsGreater(x, m) == Abs(x.n) > m * x.d

\* --------------------------------------------------------------- numbers
\* A term [r, k, c] is  c * (1 + r/100)^(k/365); r = 0 when k = 0.
Zero == {}

Keys(x) == {<<t.r, t.k>> : t \in x}

Coef(x, key) ==
    IF key \in Keys(x)
    THEN (CHOOSE t \in x : <<t.r, t.k>> = key).c
    ELSE Rat(0, 1)

Term(r, k, c) == IF c.n = 0 THEN {} ELSE {[r |-> r, k |-> k, c |-> c]}

NumOfInt(a) == Term(0, 0, Rat(a, 1))

\* x + y
NumAdd(x, y) ==
    UNION {Term(key[1], key[2], RAdd(Coef(x, key), Coef(y, key))) :
              key \in Keys(x) \cup Keys(y)}

\* a * x for a plain number a
NumScale(a, x) == UNION {Term(t.r, t.k, RMul(Rat(a, 1), t.c)) : t \in x}

\* a Python complex: a negative base raised to a non-integer power
IsComplex(x) == \E t \in x : t.k # 0 /\ t.r < -PercentDivisor

\* ------------------------------------------------------------- ordering
\* The order of two values, each computed at one rate above -100 (a positive
\* base B).  B^(k/365) lies strictly between 1 and B for 0 < k < 365, and is
\* increasing in B, so two sound tests decide x < y: term by term on equal
\* day counts, and by rational bounds of each value.
RLess(x, y) == x.n * y.d < y.n * x.d

RLeq(x, y) == x.n * y.d <= y.n * x.d

RMax(x, y) == IF RLess(x, y) THEN y ELSE x

RMin(x, y) == IF RLess(x, y) THEN x ELSE y

\* the rate of the irrational terms of a value, 0 when it is rational
RateOf(x) ==
    IF \E t \in x : t.k # 0 THEN (CHOOSE t \in x : t.k # 0).r ELSE 0

BaseOf(x) == Rat(PercentDivisor + RateOf(x), PercentDivisor)

CoefAt(x, k) ==
    IF \E t \in x : t.k = k THEN (CHOOSE t \in x : t.k = k).c ELSE Rat(0, 1)

HasIrrational(x) == \E t \in x : t.k # 0

\* cx * bx^(k/365) <= cy * by^(k/365)
TermLeq(cx, bx, cy, by, k) ==
    IF k = 0 THEN RLeq(cx, cy)
    ELSE \/ cx.n <= 0 /\ cy.n >= 0
         \/ cx.n >= 0 /\ cy.n >= 0 /\ RLeq(cx, cy) /\ RLeq(bx, by)
         \/ cx.n <= 0 /\ cy.n <= 0 /\ RLeq(cx, cy) /\ RLeq(by, bx)

\* cx * bx^(k/365) < cy * by^(k/365)
TermLess(cx, bx, cy, by, k) ==
    IF k = 0 THEN RLess(cx, cy)
    ELSE \/ cx.n <= 0 /\ cy.n >= 0 /\ (cx.n < 0 \/ cy.n > 0)
         \/ /\ cx.n >= 0 /\ cy.n > 0 /\ RLeq(cx, cy) /\ RLeq(bx, by)
            /\ (RLess(cx, cy) \/ RLess(bx, by))
         \/ /\ cx.n < 0 /\ cy.n <= 0 /\ RLeq(cx, cy) /\ RLeq(by, bx)
            /\ (RLess(cx, cy) \/ RLess(by, bx))

TermwiseLess(x, y) ==
    LET ks == {t.k : t \in x \cup y}
    IN  /\ \A k \in ks : TermLeq(CoefAt(x, k), BaseOf(x), CoefAt(y, k), BaseOf(y), k)
        /\ \E k \in ks : TermLess(CoefAt(x, k), BaseOf(x), CoefAt(y, k), BaseOf(y), k)

\* a rational bound of a value: each irrational term c * B^(k/365) is
\* replaced by c or c * B, whichever is larger (upper) or smaller (lower)
RECURSIVE Bound(_, _, _)
Bound(x, b, upper) ==
    IF x = {} THEN Rat(0, 1)
    ELSE LET t  == CHOOSE u \in x : TRUE
             cb == RMul(t.c, b)
             v  == IF t.k = 0 THEN t.c
                   ELSE IF upper THEN RMax(t.c, cb) ELSE RMin(t.c, cb)
         IN  RAdd(v, Bound(x \ {t}, b, upper))

IntervalLess(x, y) ==
    LET ux == Bound(x, BaseOf(x), TRUE)
        ly == Bound(y, BaseOf(y), FALSE)
    IN  /\ RLeq(ux, ly)
        /\ (HasIrrational(x) \/ HasIrrational(y) \/ RLess(ux, ly))

\* x < y is established
ProvablyLess(x, y) ==
    /\ RateOf(x) > -PercentDivisor
    /\ RateOf(y) > -PercentDivisor
    /\ (TermwiseLess(x, y) \/ IntervalLess(x, y))

\* x >= y is established
ProvablyGeq(x, y) == x = y \/ ProvablyLess(y, x)

\* ------------------------------------------------------ call outcomes
Ok(v) == [err |-> "none", val |-> v]

Raise(e) == [err |-> e, val |-> Zero]

\* ------------------------------------------------------------ calculator
\* FloatPow_SubtractsRate, defined first, is the variant whose base is
\* 1 - rate_decimal.
\*
\* (1 + rate_decimal) ** (days_diff / 365) as Python's float power computes
\* it: 0.0 to a negative power raises ZeroDivisionError, x ** 0.0 is 1.0 for
\* every x, 1.0 ** y is 1.0, a result beyond the float range raises
\* OverflowError, and a negative base with a non-integer exponent gives a
\* complex number without raising.
FloatPow_SubtractsRate(annual_rate, days_diff) ==
    LET base == Rat(PercentDivisor - annual_rate, PercentDivisor)
        q    == days_diff \div YearDays
        k    == days_diff % YearDays
    IN  IF base.n = 0
        THEN IF days_diff < 0 THEN Raise("ZeroDivisionError")
             ELSE IF days_diff = 0 THEN Ok(NumOfInt(1)) ELSE Ok(Zero)
        ELSE IF base = Rat(1, 1) THEN Ok(NumOfInt(1))
        ELSE LET c == RPowInt(base, q)
             IN  IF RAbsGreater(c, FloatMax)
                 THEN Raise("OverflowError")
                 ELSE Ok(Term(IF k = 0 THEN 0 ELSE annual_rate, k, c))

FloatPow(annual_rate, days_diff) ==
    LET base == Rat(PercentDivisor + annual_rate, PercentDivisor)
        q    == days_diff \div YearDays
        k    == days_diff % YearDays
    IN  IF base.n = 0
        THEN IF days_diff < 0 THEN Raise("ZeroDivisionError")
             ELSE IF days_diff = 0 THEN Ok(NumOfInt(1)) ELSE Ok(Zero)
        ELSE IF base = Rat(1, 1) THEN Ok(NumOfInt(1))
        ELSE LET c == RPowInt(base, q)
             IN  IF RAbsGreater(c, FloatMax)
                 THEN Raise("OverflowError")
                 ELSE Ok(Term(IF k = 0 THEN 0 ELSE annual_rate, k, c))

\* a variant that returns 0.0 for a zero rate
calculate_future_value_excel_formula_ZeroRateZero(present_value, annual_rate, start_date, end_date) ==
    IF annual_rate = 0
    THEN Ok(Zero)
    ELSE LET p == FloatPow(annual_rate, end_date - start_date)
         IN  IF p.err # "none" THEN p
             ELSE Ok(NumScale(present_value, p.val))

\* a variant that counts both end days of the span
calculate_future_value_excel_formula_InclusiveDays(present_value, annual_rate, start_date, end_date) ==
    IF annual_rate = 0
    THEN Ok(NumOfInt(present_value))
    ELSE LET p == FloatPow(annual_rate, end_date - start_date + 1)
         IN  IF p.err # "none" THEN p
             ELSE Ok(NumScale(present_value, p.val))

\* a variant that takes the span from end_date to start_date
calculate_future_value_excel_formula_SwappedDates(present_value, annual_rate, start_date, end_date) ==
    IF annual_rate = 0
    THEN Ok(NumOfInt(present_value))
    ELSE LET p == FloatPow(annual_rate, start_date - end_date)
         IN  IF p.err # "none" THEN p
             ELSE Ok(NumScale(present_value, p.val))

calculate_future_value_excel_formula(present_value, annual_rate, start_date, end_date) ==
    IF annual_rate = 0
    THEN Ok(NumOfInt(present_value))
    ELSE LET days_diff == end_date - start_date
             p         == FloatPow(annual_rate, days_diff)
         IN  IF p.err # "none" THEN p
             ELSE Ok(NumScale(present_value, p.val))

\* a variant that grows an undated cashflow from day 0
calculate_cashflow_future_value_excel_UndatedGrows(cashflow, annual_rate, end_date) ==
    IF cashflow.cashflow_date = NoDate
    THEN calculate_future_value_excel_formula(cashflow.amount, annual_rate, 0, end_date)
    ELSE IF cashflow.cashflow_date >= end_date
    THEN Ok(NumOfInt(cashflow.amount))
    ELSE calculate_future_value_excel_formula(
             cashflow.amount, annual_rate, cashflow.cashflow_date, end_date)

\* a variant whose undated branch scales the amount by the month index
calculate_cashflow_future_value_excel_MonthFallback(cashflow, annual_rate, end_date) ==
    IF cashflow.cashflow_date = NoDate
    THEN Ok(NumOfInt(cashflow.amount * cashflow.month))
    ELSE IF cashflow.cashflow_date >= end_date
    THEN Ok(NumOfInt(cashflow.amount))
    ELSE calculate_future_value_excel_formula(
             cashflow.amount, annual_rate, cashflow.cashflow_date, end_date)

\* a variant whose horizon test is reversed
calculate_cashflow_future_value_excel_ReversedClamp(cashflow, annual_rate, end_date) ==
    IF cashflow.cashflow_date = NoDate
    THEN Ok(NumOfInt(cashflow.amount))
    ELSE IF cashflow.cashflow_date <= end_date
    THEN Ok(NumOfInt(cashflow.amount))
    ELSE calculate_future_value_excel_formula(
             cashflow.amount, annual_rate, cashflow.cashflow_date, end_date)

calculate_cashflow_future_value_excel(cashflow, annual_rate, end_date) ==
    IF cashflow.cashflow_date = NoDate
    THEN Ok(NumOfInt(cashflow.amount))
    ELSE IF cashflow.cashflow_date >= end_date
    THEN Ok(NumOfInt(cashflow.amount))
    ELSE calculate_future_value_excel_formula(
             cashflow.amount, annual_rate, cashflow.cashflow_date, end_date)

\* Optional[List[CashflowFVItem]]: None is <<>>, a list l is <<l>>
None == <<>>

Some(l) == <<l>>

ScenarioResult(portfolio_fv, cashflow_fv, total_fv, rate, scenario_name, cashflow_details) ==
    [portfolio_fv |-> portfolio_fv, cashflow_fv |-> cashflow_fv,
     total_fv |-> total_fv, rate |-> rate, scenario_name |-> scenario_name,
     cashflow_details |-> cashflow_details]

\* the outcomes of the loop body of calculate_scenario_excel, one per
\* cashflow; a zero cashflow is skipped and computes nothing
ScenarioCashflowFVs(cashflows, annual_rate, end_date) ==
    [i \in 1..Len(cashflows) |->
        IF cashflows[i].amount # 0
        THEN calculate_cashflow_future_value_excel(cashflows[i], annual_rate, end_date)
        ELSE Ok(Zero)]

\* the error of the first outcome that raised, "none" when none did
FirstError(outcomes) ==
    LET bad == {i \in 1..Len(outcomes) : outcomes[i].err # "none"}
    IN  IF bad = {} THEN "none"
        ELSE outcomes[CHOOSE i \in bad : \A j \in bad : i <= j].err

\* x_1 + ... + x_n added in list order, starting from 0.0
RECURSIVE SumVals(_, _)
SumVals(outcomes, n) ==
    IF n = 0 THEN Zero ELSE NumAdd(SumVals(outcomes, n - 1), outcomes[n].val)

calculate_scenario_excel(beginning_mv, start_date, end_date, annual_rate, cashflows, scenario_name) ==
    LET portfolio == calculate_future_value_excel_formula(
                         beginning_mv, annual_rate, start_date, end_date)
        fvs       == ScenarioCashflowFVs(cashflows, annual_rate, end_date)
        cashflow_fv == SumVals(fvs, Len(fvs))
    IN  IF portfolio.err # "none" THEN Raise(portfolio.err)
        ELSE IF FirstError(fvs) # "none" THEN Raise(FirstError(fvs))
        ELSE Ok(ScenarioResult(portfolio.val, cashflow_fv,
                               NumAdd(portfolio.val, cashflow_fv),
                               annual_rate, scenario_name, None))

\* scenarios.get(name, default)
Get(scenarios, name, default) ==
    IF name \in DOMAIN scenarios THEN scenarios[name] ELSE default

\* the three future values computed for one cashflow by the first loop of
\* calculate_all_scenarios_excel, in the order the code computes them
DetailOutcomes(cashflow, scenarios, end_date) ==
    << calculate_cashflow_future_value_excel(cashflow, Get(scenarios, "downside", 0), end_date),
       calculate_cashflow_future_value_excel(cashflow, Get(scenarios, "base", 0), end_date),
       calculate_cashflow_future_value_excel(cashflow, Get(scenarios, "upside", 0), end_date) >>

CashflowFVItem(cashflow, outcomes) ==
    [amount      |-> cashflow.amount,
     month       |-> cashflow.month,
     description |-> cashflow.description,
     fv_downside |-> outcomes[1].val,
     fv_base     |-> outcomes[2].val,
     fv_upside   |-> outcomes[3].val]

\* the first loop: one CashflowFVItem per cashflow, in list order, zero
\* amounts included; it runs outside the try, so the first error escapes
PrecomputeError(cashflows, scenarios, end_date) ==
    LET errs == [i \in 1..Len(cashflows) |->
                    [err |-> FirstError(DetailOutcomes(cashflows[i], scenarios, end_date))]]
    IN  FirstError(errs)

\* a variant that puts each new row in front of the list
PrecomputeDetails_Prepends(cashflows, scenarios, end_date) ==
    [i \in 1..Len(cashflows) |->
        CashflowFVItem(cashflows[Len(cashflows) + 1 - i],
                       DetailOutcomes(cashflows[Len(cashflows) + 1 - i], scenarios, end_date))]

PrecomputeDetails(cashflows, scenarios, end_date) ==
    [i \in 1..Len(cashflows) |->
        CashflowFVItem(cashflows[i], DetailOutcomes(cashflows[i], scenarios, end_date))]

\* the if/elif chain of the second loop: the field of a detail row that is
\* added for a scenario name; no branch matches any other name
\* a variant whose upside branch adds the base field
DetailFV_UpsideAddsBase(cf_detail, scenario_name) ==
    IF scenario_name = "downside" THEN cf_detail.fv_downside
    ELSE IF scenario_name = "base" THEN cf_detail.fv_base
    ELSE IF scenario_name = "upside" THEN cf_detail.fv_base
    ELSE Zero

DetailFV(cf_detail, scenario_name) ==
    IF scenario_name = "downside" THEN cf_detail.fv_downside
    ELSE IF scenario_name = "base" THEN cf_detail.fv_base
    ELSE IF scenario_name = "upside" THEN cf_detail.fv_upside
    ELSE Zero

RECURSIVE SumDetails(_, _, _)
SumDetails(cashflow_fv_details, scenario_name, n) ==
    IF n = 0 THEN Zero
    ELSE NumAdd(SumDetails(cashflow_fv_details, scenario_name, n - 1),
                DetailFV(cashflow_fv_details[n], scenario_name))

\* a variant that labels every result with the name and rate of 'base'
ScenarioOutcome_LabelsBase(beginning_mv, start_date, end_date, scenario_name, annual_rate, cashflow_fv_details) ==
    LET portfolio == calculate_future_value_excel_formula(
                         beginning_mv, annual_rate, start_date, end_date)
        total_cashflow_fv == SumDetails(cashflow_fv_details, scenario_name,
                                        Len(cashflow_fv_details))
    IN  IF portfolio.err # "none" THEN Raise(portfolio.err)
        ELSE Ok(ScenarioResult(portfolio.val, total_cashflow_fv,
                               NumAdd(portfolio.val, total_cashflow_fv),
                               7, "base",
                               Some(cashflow_fv_details)))

\* a variant whose total leaves the cashflows out
ScenarioOutcome_TotalOmitsCashflows(beginning_mv, start_date, end_date, scenario_name, annual_rate, cashflow_fv_details) ==
    LET portfolio == calculate_future_value_excel_formula(
                         beginning_mv, annual_rate, start_date, end_date)
        total_cashflow_fv == SumDetails(cashflow_fv_details, scenario_name,
                                        Len(cashflow_fv_details))
    IN  IF portfolio.err # "none" THEN Raise(portfolio.err)
        ELSE Ok(ScenarioResult(portfolio.val, total_cashflow_fv,
                               portfolio.val,
                               annual_rate, scenario_name,
                               Some(cashflow_fv_details)))

\* the body of the try of the second loop for one scenario
ScenarioOutcome(beginning_mv, start_date, end_date, scenario_name, annual_rate, cashflow_fv_details) ==
    LET portfolio == calculate_future_value_excel_formula(
                         beginning_mv, annual_rate, start_date, end_date)
        total_cashflow_fv == SumDetails(cashflow_fv_details, scenario_name,
                                        Len(cashflow_fv_details))
    IN  IF portfolio.err # "none" THEN Raise(portfolio.err)
        ELSE Ok(ScenarioResult(portfolio.val, total_cashflow_fv,
                               NumAdd(portfolio.val, total_cashflow_fv),
                               annual_rate, scenario_name,
                               Some(cashflow_fv_details)))

calculate_all_scenarios_excel(beginning_mv, start_date, end_date, scenarios, cashflows) ==
    LET precompute_err == PrecomputeError(cashflows, scenarios, end_date)
        cashflow_fv_details == PrecomputeDetails(cashflows, scenarios, end_date)
        outcome(name) == ScenarioOutcome(beginning_mv, start_date, end_date, name,
                                         scenarios[name], cashflow_fv_details)
        computed == {name \in DOMAIN scenarios : outcome(name).err = "none"}
    IN  IF precompute_err # "none" THEN Raise(precompute_err)
        ELSE Ok([name \in computed |-> outcome(name).val])

\* ------------------------------------------------------------ the inputs
CashflowItems ==
    [amount : Amounts, month : Months, description : Descriptions,
     cashflow_date : Dates \cup {NoDate}]

CashflowLists ==
    UNION {[1..n -> {cf \in CashflowItems :
                        <<cf.amount, cf.cashflow_date>> \in ListCashflows}] :
              n \in 0..MaxCashflows}

\* a dict from any subset of the scenario names to rates
ScenarioMaps ==
    {f \in UNION {[S -> Rates] : S \in SUBSET ScenarioNames} :
        \A name \in DOMAIN f : f[name] \in ScenarioRates[name]}

\* ------------------------------------------------- database_connection.py
\* The database as one request finds it: whether pyodbc.connect and
\* read_sql_query succeed, and the rows of the two tables the queries read.
DbModes == {"up", "unreachable", "rejects"}

GroupCodes == {"PROG-001", "PROG-404"}

HoldingRows ==
    {[group_code |-> "PROG-001", date |-> 0,   market_value_rc |-> 4],
     [group_code |-> "PROG-001", date |-> 200, market_value_rc |-> 5]}

CashFlowRows ==
    {[group_code |-> "PROG-001", date |-> 0,   amount_rc |-> 3],
     [group_code |-> "PROG-001", date |-> 200, amount_rc |-> -2],
     [group_code |-> "PROG-001", date |-> 200, amount_rc |-> 3],
     [group_code |-> "PROG-001", date |-> 365, amount_rc |-> 3]}

Databases ==
    [mode : DbModes, ClientHolding : SUBSET HoldingRows,
     ClientCashFlow : SUBSET CashFlowRows]

\* a cell of a result set: SQL NULL (None in the DataFrame) or a number
Null == [null |-> TRUE, v |-> 0]

Cell(v) == [null |-> FALSE, v |-> v]

\* the sum of the values a function takes
RECURSIVE SumFn(_)
SumFn(f) ==
    IF DOMAIN f = {} THEN 0
    ELSE LET r == CHOOSE x \in DOMAIN f : TRUE
         IN  f[r] + SumFn([y \in DOMAIN f \ {r} |-> f[y]])

\* SQL SUM of the value f gives each row: NULL over no rows
SqlSum(f) ==
    IF DOMAIN f = {} THEN Null ELSE Cell(SumFn(f))

\* the one-row result of the query of get_market_values
MarketValuesResult(db, group_code, start_date, end_date) ==
    LET rows == {r \in db.ClientHolding :
                    r.group_code = group_code /\ r.date \in {start_date, end_date}}
    IN  [beginning_mv |->
            SqlSum([r \in rows |->
                       IF r.date = start_date THEN r.market_value_rc ELSE 0]),
         ending_mv |->
            SqlSum([r \in rows |->
                       IF r.date = end_date THEN r.market_value_rc ELSE 0])]

\* the rows of a set of dated rows in date order
RECURSIVE OrderByDate(_)
OrderByDate(rows) ==
    IF rows = {} THEN <<>>
    ELSE LET first == CHOOSE x \in rows : \A y \in rows : x.date <= y.date
         IN  <<first>> \o OrderByDate(rows \ {first})

\* the result of the query of get_cashflows: one row per date, in date order
CashflowsResult(db, group_code, start_date, end_date) ==
    LET rows == {r \in db.ClientCashFlow :
                    /\ r.group_code = group_code
                    /\ start_date <= r.date /\ r.date <= end_date}
        dates == {r.date : r \in rows}
    IN  OrderByDate({[date |-> d,
                      amount_rc |-> SumFn([r \in {x \in rows : x.date = d} |->
                                              r.amount_rc])] : d \in dates})

\* the one-row result of the query of validate_group_code
CountResult(db, group_code) ==
    [count |-> Cardinality({r \in db.ClientHolding : r.group_code = group_code})]

\* the one-row result of the query of get_available_date_range
DateRangeResult(db, group_code) ==
    LET dates == {r.date : r \in {x \in db.ClientHolding : x.group_code = group_code}}
    IN  IF dates = {} THEN [min_date |-> Null, max_date |-> Null]
        ELSE [min_date |-> Cell(CHOOSE d \in dates : \A e \in dates : d <= e),
              max_date |-> Cell(CHOOSE d \in dates : \A e \in dates : d >= e)]

\* _get_connection: pyodbc.connect, its error printed and re-raised
get_connection(db) ==
    IF db.mode = "unreachable"
    THEN [err |-> "pyodbc.Error", calls |-> <<"connect">>]
    ELSE [err |-> "none", calls |-> <<"connect">>]

\* a variant that makes a second attempt when the first one fails
call_db_RetriesOnce(db, df) ==
    LET conn == get_connection(db)
    IN  IF conn.err # "none"
        THEN [err |-> conn.err, val |-> <<>>,
              calls |-> <<"call_db">> \o conn.calls \o conn.calls]
        ELSE IF db.mode = "rejects"
        THEN [err |-> "DatabaseError", val |-> <<>>,
              calls |-> <<"call_db">> \o conn.calls \o <<"read_sql_query", "close">>
                        \o conn.calls \o <<"read_sql_query", "close">>]
        ELSE [err |-> "none", val |-> df,
              calls |-> <<"call_db">> \o conn.calls \o <<"read_sql_query", "close">>]

\* a variant whose connection is closed only after a successful query
call_db_LeaksOnFailure(db, df) ==
    LET conn == get_connection(db)
    IN  IF conn.err # "none"
        THEN [err |-> conn.err, val |-> <<>>, calls |-> <<"call_db">> \o conn.calls]
        ELSE IF db.mode = "rejects"
        THEN [err |-> "DatabaseError", val |-> <<>>,
              calls |-> <<"call_db">> \o conn.calls \o <<"read_sql_query">>]
        ELSE [err |-> "none", val |-> df,
              calls |-> <<"call_db">> \o conn.calls \o <<"read_sql_query", "close">>]

\* call_db: a fresh connection, one read_sql_query, the error printed and
\* re-raised, and in the finally the connection closed if there is one;
\* df is the result set the query has on this database
call_db(db, df) ==
    LET conn == get_connection(db)
    IN  IF conn.err # "none"
        THEN [err |-> conn.err, val |-> <<>>, calls |-> <<"call_db">> \o conn.calls]
        ELSE IF db.mode = "rejects"
        THEN [err |-> "DatabaseError", val |-> <<>>,
              calls |-> <<"call_db">> \o conn.calls \o <<"read_sql_query", "close">>]
        ELSE [err |-> "none", val |-> df,
              calls |-> <<"call_db">> \o conn.calls \o <<"read_sql_query", "close">>]

\* --------------------------------------------------------- data_manager.py
\* The attributes of a datetime.date, for a day counted from 2025-01-01
\* (neither 2025 nor 2026 is a leap year).
CalendarYearDays == 365

MonthStarts == <<0, 31, 59, 90, 120, 151, 181, 212, 243, 273, 304, 334>>

Year(d) == 2025 + (d \div CalendarYearDays)

Month(d) == Cardinality({i \in 1..12 : MonthStarts[i] <= (d % CalendarYearDays)})

Day(d) == (d % CalendarYearDays) - MonthStarts[Month(d)] + 1

Max(a, b) == IF a >= b THEN a ELSE b

\* float(x or 0): None and 0 both give 0.0
OrZero(cell) == IF cell.null \/ cell.v = 0 THEN 0 ELSE cell.v

\* what an operation of the data manager did: the error it raised, the
\* value it returned, the database events, and the errors it caught and
\* did not raise again
Outcome(err, val, calls, caught) ==
    [err |-> err, val |-> val, calls |-> calls, caught |-> caught]

get_market_values(db, group_code, start_date, end_date) ==
    LET result == call_db(db, MarketValuesResult(db, group_code, start_date, end_date))
    IN  IF result.err # "none"
        THEN Outcome(result.err, <<>>, result.calls, {})
        ELSE Outcome("none",
                     <<OrZero(result.val.beginning_mv), OrZero(result.val.ending_mv)>>,
                     result.calls, {})

\* the CashflowItem built from one row of the result
CashflowItemOfRow(row, start_date) ==
    LET months_diff == (Year(row.date) - Year(start_date)) * 12
                       + (Month(row.date) - Month(start_date))
    IN  [amount        |-> row.amount_rc,
         month         |-> Max(1, months_diff + 1),
         description   |-> <<"Cashflow on", row.date>>,
         cashflow_date |-> row.date]

get_cashflows(db, group_code, start_date, end_date) ==
    LET result == call_db(db, CashflowsResult(db, group_code, start_date, end_date))
    IN  IF result.err # "none"
        THEN Outcome(result.err, <<>>, result.calls, {})
        ELSE Outcome("none",
                     [i \in 1..Len(result.val) |->
                         CashflowItemOfRow(result.val[i], start_date)],
                     result.calls, {})

validate_group_code(db, group_code) ==
    LET result == call_db(db, CountResult(db, group_code))
    IN  IF result.err # "none"
        THEN Outcome("none", FALSE, result.calls, {result.err})
        ELSE Outcome("none", result.val.count > 0, result.calls, {})

get_available_date_range(db, group_code) ==
    LET result == call_db(db, DateRangeResult(db, group_code))
    IN  IF result.err # "none"
        THEN Outcome(result.err, <<>>, result.calls, {})
        ELSE Outcome("none", <<result.val.min_date, result.val.max_date>>,
                     result.calls, {})

\* a variant that returns the month count as computed
calculate_time_horizon_months_Unclamped(start_date, end_date) ==
    IF start_date = NoDate \/ end_date = NoDate
    THEN Outcome("none", 1, <<>>, {"AttributeError"})
    ELSE LET months == (Year(end_date) - Year(start_date)) * 12
                       + (Month(end_date) - Month(start_date))
             counted == IF Day(end_date) > Day(start_date) THEN months + 1 ELSE months
         IN  Outcome("none", counted, <<>>, {})

\* None for a date has no .year: the AttributeError is caught and 1 returned
calculate_time_horizon_months(start_date, end_date) ==
    IF start_date = NoDate \/ end_date = NoDate
    THEN Outcome("none", 1, <<>>, {"AttributeError"})
    ELSE LET months == (Year(end_date) - Year(start_date)) * 12
                       + (Month(end_date) - Month(start_date))
             counted == IF Day(end_date) > Day(start_date) THEN months + 1 ELSE months
         IN  Outcome("none", Max(1, counted), <<>>, {})

\* the dates calculate_time_horizon_months is called with, None included
HorizonDates == Dates \cup {NoDate}

\* ------------------------------------------- validators.py and setting.py
\* VALIDATION_RULES['rates']
RateMin == -50

RateMax == 100

GroupCodeMaxLength == 50

MaxPastDays == 3650

MaxFutureDays == 730

\* None for a rate, a group code and n_clicks
NoRate == -1000

\* float('nan') for a rate: every comparison with it is False
NaNRate == -2000

FloatLess(a, b) == a # NaNRate /\ b # NaNRate /\ a < b

FloatGreater(a, b) == a # NaNRate /\ b # NaNRate /\ a > b

FloatGeq(a, b) == a # NaNRate /\ b # NaNRate /\ a >= b

NoText == "<None>"

NoClicks == -1

\* a group code of 51 characters
LongCode == "PROG-0000000000000000000000000000000000000000000051"

\* len(group_code.strip())
StrippedLength(group_code) ==
    CASE group_code = "   "    -> 0
      [] group_code = ""       -> 0
      [] group_code = LongCode -> 51
      [] OTHER                 -> 8

Validation(errors) == [valid |-> Len(errors) = 0, errors |-> errors]

\* one message if the condition holds; a message is the tuple of the parts
\* of its f-string
ErrorIf(condition, message) == IF condition THEN <<message>> ELSE <<>>

\* the errors of one rate in the loop of validate_scenario_inputs
RateErrors(scenario_name, rate) ==
    IF rate = NoRate THEN <<(<<scenario_name, "scenario rate is required">>)>>
    ELSE IF FloatLess(rate, RateMin)
    THEN <<(<<scenario_name, "rate must be at least", RateMin>>)>>
    ELSE IF FloatGreater(rate, RateMax)
    THEN <<(<<scenario_name, "rate must be no more than", RateMax>>)>>
    ELSE <<>>

validate_scenario_inputs(downside_rate, base_rate, upside_rate) ==
    LET individual == RateErrors("Downside", downside_rate)
                      \o RateErrors("Base", base_rate)
                      \o RateErrors("Upside", upside_rate)
        relations ==
            IF Len(individual) = 0
            THEN ErrorIf(FloatGeq(downside_rate, base_rate),
                         <<"Downside rate should be lower than base rate">>)
                 \o ErrorIf(FloatGeq(base_rate, upside_rate),
                            <<"Base rate should be lower than upside rate">>)
                 \o ErrorIf(FloatGeq(downside_rate, upside_rate),
                            <<"Downside rate should be lower than upside rate">>)
            ELSE <<>>
    IN  Validation(individual \o relations)

\* a variant that accepts a period of no days
validate_date_inputs_AllowsEmptyPeriod(group_code, start_date, end_date, today) ==
    LET group ==
            IF group_code = NoText \/ group_code = "" \/ StrippedLength(group_code) = 0
            THEN <<(<<"Group code is required">>)>>
            ELSE ErrorIf(StrippedLength(group_code) > GroupCodeMaxLength,
                         <<"Group code must be 50 characters or less">>)
        dates ==
            ErrorIf(start_date = NoDate, <<"Start date is required">>)
            \o ErrorIf(end_date = NoDate, <<"End date is required">>)
        period ==
            IF start_date # NoDate /\ end_date # NoDate
            THEN ErrorIf(start_date > end_date,
                         <<"Start date must be before end date">>)
                 \o ErrorIf(start_date < today - MaxPastDays,
                            <<"Start date cannot be more than 10 years in the past">>)
                 \o ErrorIf(end_date > today + MaxFutureDays,
                            <<"End date cannot be more than 2 years in the future">>)
                 \o ErrorIf(end_date - start_date < 0,
                            <<"Period must be at least 1 day long">>)
            ELSE <<>>
    IN  Validation(group \o dates \o period)

\* today is what date.today() returns
validate_date_inputs(group_code, start_date, end_date, today) ==
    LET group ==
            IF group_code = NoText \/ group_code = "" \/ StrippedLength(group_code) = 0
            THEN <<(<<"Group code is required">>)>>
            ELSE ErrorIf(StrippedLength(group_code) > GroupCodeMaxLength,
                         <<"Group code must be 50 characters or less">>)
        dates ==
            ErrorIf(start_date = NoDate, <<"Start date is required">>)
            \o ErrorIf(end_date = NoDate, <<"End date is required">>)
        period ==
            IF start_date # NoDate /\ end_date # NoDate
            THEN ErrorIf(start_date >= end_date,
                         <<"Start date must be before end date">>)
                 \o ErrorIf(start_date < today - MaxPastDays,
                            <<"Start date cannot be more than 10 years in the past">>)
                 \o ErrorIf(end_date > today + MaxFutureDays,
                            <<"End date cannot be more than 2 years in the future">>)
                 \o ErrorIf(end_date - start_date < 1,
                            <<"Period must be at least 1 day long">>)
            ELSE <<>>
    IN  Validation(group \o dates \o period)

\* how often an event occurs in a trace
Count(trace, event) == Cardinality({i \in 1..Len(trace) : trace[i] = event})

\* ------------------------------------------------------------------ app.py
\* what the callback hands back to Dash
EmptyDiv == [kind |-> "Div", errors |-> <<>>]

create_error_message(errors) == [kind |-> "error_message", errors |-> errors]

\* a variant that reads the market values before it validates anything
calculate_scenarios_FetchesFirst(n_clicks, group_code, start_date, end_date, downside_rate, base_rate, upside_rate, database, today) ==
    IF n_clicks = NoClicks THEN Outcome("none", EmptyDiv, <<>>, {})
    ELSE IF start_date = NoDate \/ end_date = NoDate
    THEN Outcome("none",
                 create_error_message(<<(<<"Start date and end date are required">>)>>),
                 <<>>, {})
    ELSE LET market_values == get_market_values(database, group_code, start_date, end_date)
             fetched == <<"get_market_values">> \o market_values.calls
             date_validation == validate_date_inputs(group_code, start_date, end_date, today)
             scenario_validation ==
                 validate_scenario_inputs(downside_rate, base_rate, upside_rate)
         IN  IF market_values.err # "none"
             THEN Outcome("none",
                          create_error_message(
                              <<(<<"Calculation error", market_values.err>>)>>),
                          fetched, {market_values.err})
             ELSE IF ~date_validation.valid
             THEN Outcome("none", create_error_message(date_validation.errors),
                          fetched \o <<"validate_date_inputs">>, {})
             ELSE IF ~scenario_validation.valid
             THEN Outcome("none", create_error_message(scenario_validation.errors),
                          fetched \o <<"validate_date_inputs", "validate_scenario_inputs">>,
                          {})
             ELSE Outcome("none",
                          create_error_message(<<(<<"Calculation error", "NameError">>)>>),
                          fetched \o <<"validate_date_inputs", "validate_scenario_inputs",
                                       "calculate_time_horizon_months">>,
                          {"NameError"})

\* The callback calculate_scenarios, as far as it gets: the name
\* cashflow_manager in line 176 is bound nowhere in app.py, so the NameError
\* is caught by the except of the handler before cashflow_children is read
\* and before any method of portfolio_calculator is called. calls lists the
\* validators, data manager methods and database events in call order.
calculate_scenarios(n_clicks, group_code, start_date, end_date, downside_rate, base_rate, upside_rate, database, today) ==
    IF n_clicks = NoClicks THEN Outcome("none", EmptyDiv, <<>>, {})
    ELSE IF start_date = NoDate \/ end_date = NoDate
    THEN Outcome("none",
                 create_error_message(<<(<<"Start date and end date are required">>)>>),
                 <<>>, {})
    ELSE LET date_validation == validate_date_inputs(group_code, start_date, end_date, today)
             scenario_validation ==
                 validate_scenario_inputs(downside_rate, base_rate, upside_rate)
             market_values == get_market_values(database, group_code, start_date, end_date)
             fetched == <<"validate_date_inputs", "validate_scenario_inputs",
                          "get_market_values">> \o market_values.calls
         IN  IF ~date_validation.valid
             THEN Outcome("none", create_error_message(date_validation.errors),
                          <<"validate_date_inputs">>, {})
             ELSE IF ~scenario_validation.valid
             THEN Outcome("none", create_error_message(scenario_validation.errors),
                          <<"validate_date_inputs", "validate_scenario_inputs">>, {})
             ELSE IF market_values.err # "none"
             THEN Outcome("none",
                          create_error_message(
                              <<(<<"Calculation error", market_values.err>>)>>),
                          fetched, {market_values.err})
             ELSE Outcome("none",
                          create_error_message(<<(<<"Calculation error", "NameError">>)>>),
                          fetched \o <<"calculate_time_horizon_months">>,
                          {"NameError"})

\* the rates and dates the validators are called with
ValidatorRates == {NoRate, NaNRate, -60, -50, 0, 7, 100, 150}

ValidatorDates == {NoDate, 0, 200, 365}

\* the values of the form and the clock of a request
FormGroupCodes == {NoText, "   ", "PROG-001", LongCode}

FormDates == {NoDate, 0, 200}

FormRates ==
    [downside : {NoRate, -60, 0}, base : {0, 7}, upside : {7, 15, 150}]

Todays == {-600, 100, 4000}

\* the databases a request can find: get_market_values reads ClientHolding
RequestDatabases == {d \in Databases : d.ClientCashFlow = {}}

\* ------------------------------------------------------------- the state
VARIABLES method, args, raised, returned, after, calculator, db, calls, caught, clock,
          requests

vars == <<method, args, raised, returned, after, calculator, db, calls, caught,
          clock, requests>>

\* the requests that are valued at the same time on the one calculator
Requests == {1, 2}

\* the frame of a request that is not running
IdleFrame ==
    [pc |-> "idle", args |-> <<>>, i |-> 0, cashflow_fv_details |-> <<>>,
     pending |-> <<>>, results |-> <<>>, err |-> "none", overlapped |-> FALSE]

\* the attributes of a PortfolioCalculator instance: __init__ assigns none
NoAttributes == <<>>

\* a variant that drops the zero-amount cashflows from the caller's list and
\* keeps the scenarios it was last given
AllScenariosExcelEffects_FiltersInPlace(self, a) ==
    [arguments  |-> [a EXCEPT !.cashflows =
                        SelectSeq(a.cashflows, LAMBDA cf : cf.amount # 0)],
     calculator |-> [last_scenarios |-> a.scenarios]]

\* what calculate_all_scenarios_excel leaves behind: it reads cashflows and
\* scenarios and builds new lists and records, assigning to no argument and
\* to no attribute of self
AllScenariosExcelEffects(self, a) ==
    [arguments |-> a, calculator |-> self]

\* the three single-value operations assign to nothing either
NoEffects(self, a) ==
    [arguments |-> a, calculator |-> self]

Init ==
    /\ method = "none"
    /\ args = <<>>
    /\ raised = "none"
    /\ returned = <<>>
    /\ after = <<>>
    /\ calculator = NoAttributes
    /\ db = <<>>
    /\ calls = <<>>
    /\ caught = {}
    /\ clock = NoDate
    /\ requests = [r \in Requests |-> IdleFrame]

\* the errors the except of the second loop of calculate_all_scenarios_excel
\* catches, logs and passes over with continue
AllScenariosExcelCaught(beginning_mv, start_date, end_date, scenarios, cashflows) ==
    IF PrecomputeError(cashflows, scenarios, end_date) # "none" THEN {}
    ELSE {ScenarioOutcome(beginning_mv, start_date, end_date, name, scenarios[name],
                          PrecomputeDetails(cashflows, scenarios, end_date)).err :
              name \in DOMAIN scenarios} \ {"none"}

\* an operation of the calculator touches no database
Calculates(errors_caught) ==
    /\ db' = <<>>
    /\ calls' = <<>>
    /\ caught' = errors_caught
    /\ clock' = NoDate
    /\ requests' = requests

\* an operation of the data manager on the database of this request
Retrieves(m, a, database, outcome) ==
    /\ method' = m
    /\ args' = a
    /\ raised' = outcome.err
    /\ returned' = IF outcome.err = "none" THEN outcome.val ELSE <<>>
    /\ after' = a
    /\ calculator' = calculator
    /\ db' = database
    /\ calls' = outcome.calls
    /\ caught' = outcome.caught
    /\ clock' = NoDate
    /\ requests' = requests

\* a call completes: its arguments as passed, what it returned or raised,
\* and the argument objects and the calculator as the call leaves them
Completes(m, a, outcome, effects) ==
    /\ after' = effects.arguments
    /\ calculator' = effects.calculator
    /\ method' = m
    /\ args' = a
    /\ raised' = outcome.err
    /\ returned' = IF outcome.err = "none" THEN outcome.val ELSE <<>>

CallFutureValueExcelFormula ==
    /\ method = "none"
    /\ \E present_value \in Amounts \cup BeginningMVs, annual_rate \in Rates,
       start_date \in Dates, end_date \in Dates :
        LET a == [present_value |-> present_value, annual_rate |-> annual_rate,
                  start_date |-> start_date, end_date |-> end_date]
        IN  /\ Completes("calculate_future_value_excel_formula", a,
                  calculate_future_value_excel_formula(
                      present_value, annual_rate, start_date, end_date),
                  NoEffects(calculator, a))
            /\ Calculates({})

CallCashflowFutureValueExcel ==
    /\ method = "none"
    /\ \E cashflow \in CashflowItems, annual_rate \in Rates, end_date \in Dates :
        LET a == [cashflow |-> cashflow, annual_rate |-> annual_rate,
                  end_date |-> end_date]
        IN  /\ Completes("calculate_cashflow_future_value_excel", a,
                  calculate_cashflow_future_value_excel(cashflow, annual_rate, end_date),
                  NoEffects(calculator, a))
            /\ Calculates({})

CallScenarioExcel ==
    /\ method = "none"
    /\ \E beginning_mv \in BeginningMVs, start_date \in ListStarts, end_date \in Dates,
       annual_rate \in Rates, cashflows \in CashflowLists,
       scenario_name \in ScenarioNames :
        LET a == [beginning_mv |-> beginning_mv, start_date |-> start_date,
                  end_date |-> end_date, annual_rate |-> annual_rate,
                  cashflows |-> cashflows, scenario_name |-> scenario_name]
        IN  /\ Completes("calculate_scenario_excel", a,
                  calculate_scenario_excel(beginning_mv, start_date, end_date,
                                           annual_rate, cashflows, scenario_name),
                  NoEffects(calculator, a))
            /\ Calculates({})

CallAllScenariosExcel ==
    /\ method = "none"
    /\ \E beginning_mv \in BeginningMVs, start_date \in ListStarts, end_date \in Dates,
       scenarios \in ScenarioMaps, cashflows \in CashflowLists :
        LET a == [beginning_mv |-> beginning_mv, start_date |-> start_date,
                  end_date |-> end_date, scenarios |-> scenarios,
                  cashflows |-> cashflows]
        IN  /\ Completes("calculate_all_scenarios_excel", a,
                  calculate_all_scenarios_excel(beginning_mv, start_date, end_date,
                                                scenarios, cashflows),
                  AllScenariosExcelEffects(calculator, a))
            /\ Calculates(AllScenariosExcelCaught(beginning_mv, start_date, end_date,
                                                  scenarios, cashflows))

CallGetMarketValues ==
    /\ method = "none"
    /\ \E database \in Databases, group_code \in GroupCodes,
          start_date \in Dates, end_date \in Dates :
          Retrieves("get_market_values",
                    [group_code |-> group_code, start_date |-> start_date,
                     end_date |-> end_date],
                    database,
                    get_market_values(database, group_code, start_date, end_date))

CallGetCashflows ==
    /\ method = "none"
    /\ \E database \in Databases, group_code \in GroupCodes,
          start_date \in Dates, end_date \in Dates :
          Retrieves("get_cashflows",
                    [group_code |-> group_code, start_date |-> start_date,
                     end_date |-> end_date],
                    database,
                    get_cashflows(database, group_code, start_date, end_date))

\* call_db called directly, with the counting query of validate_group_code
CallCallDb ==
    /\ method = "none"
    /\ \E database \in Databases, group_code \in GroupCodes :
          LET result == call_db(database, CountResult(database, group_code))
          IN  Retrieves("call_db", [query |-> <<"count", group_code>>], database,
                        Outcome(result.err, result.val, result.calls, {}))

CallValidateGroupCode ==
    /\ method = "none"
    /\ \E database \in Databases, group_code \in GroupCodes :
          Retrieves("validate_group_code", [group_code |-> group_code], database,
                    validate_group_code(database, group_code))

CallGetAvailableDateRange ==
    /\ method = "none"
    /\ \E database \in Databases, group_code \in GroupCodes :
          Retrieves("get_available_date_range", [group_code |-> group_code], database,
                    get_available_date_range(database, group_code))

CallCalculateTimeHorizonMonths ==
    /\ method = "none"
    /\ \E start_date \in HorizonDates, end_date \in HorizonDates :
          Retrieves("calculate_time_horizon_months",
                    [start_date |-> start_date, end_date |-> end_date], <<>>,
                    calculate_time_horizon_months(start_date, end_date))

\* a validator returns its verdict; validate_date_inputs has read the clock
Validates(m, a, today, result) ==
    /\ method' = m
    /\ args' = a
    /\ raised' = "none"
    /\ returned' = result
    /\ after' = a
    /\ calculator' = calculator
    /\ db' = <<>>
    /\ calls' = <<>>
    /\ caught' = {}
    /\ clock' = today
    /\ requests' = requests

CallValidateScenarioInputs ==
    /\ method = "none"
    /\ \E downside_rate \in ValidatorRates, base_rate \in ValidatorRates,
          upside_rate \in ValidatorRates :
          Validates("validate_scenario_inputs",
                    [downside_rate |-> downside_rate, base_rate |-> base_rate,
                     upside_rate |-> upside_rate],
                    NoDate,
                    validate_scenario_inputs(downside_rate, base_rate, upside_rate))

CallValidateDateInputs ==
    /\ method = "none"
    /\ \E group_code \in FormGroupCodes, start_date \in ValidatorDates,
          end_date \in ValidatorDates, today \in Todays :
          Validates("validate_date_inputs",
                    [group_code |-> group_code, start_date |-> start_date,
                     end_date |-> end_date],
                    today,
                    validate_date_inputs(group_code, start_date, end_date, today))

\* one click on the calculate button; the database is part of what the
\* request leaves behind only if call_db was reached, the clock only if
\* validate_date_inputs read it
CallCalculateScenarios ==
    /\ method = "none"
    /\ \E n_clicks \in {NoClicks, 1}, group_code \in FormGroupCodes,
          start_date \in FormDates, end_date \in FormDates, rates \in FormRates,
          database \in RequestDatabases, today \in Todays :
          LET a == [n_clicks |-> n_clicks, group_code |-> group_code,
                    start_date |-> start_date, end_date |-> end_date,
                    downside_rate |-> rates.downside, base_rate |-> rates.base,
                    upside_rate |-> rates.upside]
              outcome == calculate_scenarios(n_clicks, group_code, start_date, end_date,
                                             rates.downside, rates.base, rates.upside,
                                             database, today)
          IN  /\ method' = "calculate_scenarios"
              /\ args' = a
              /\ raised' = outcome.err
              /\ returned' = outcome.val
              /\ after' = a
              /\ calculator' = calculator
              /\ db' = IF Count(outcome.calls, "call_db") > 0 THEN database ELSE <<>>
              /\ calls' = outcome.calls
              /\ caught' = outcome.caught
              /\ clock' = IF Count(outcome.calls, "validate_date_inputs") > 0
                          THEN today ELSE NoDate
              /\ requests' = requests

\* the caller has consumed the result; the calculator keeps nothing of it
Done ==
    /\ method # "none"
    /\ method' = "none"
    /\ args' = <<>>
    /\ raised' = "none"
    /\ returned' = <<>>
    /\ after' = <<>>
    /\ calculator' = calculator
    /\ db' = <<>>
    /\ calls' = <<>>
    /\ caught' = {}
    /\ clock' = NoDate
    /\ requests' = requests

Next ==
    \/ CallFutureValueExcelFormula
    \/ CallCashflowFutureValueExcel
    \/ CallScenarioExcel
    \/ CallAllScenariosExcel
    \/ CallCallDb
    \/ CallGetMarketValues
    \/ CallGetCashflows
    \/ CallValidateGroupCode
    \/ CallGetAvailableDateRange
    \/ CallCalculateTimeHorizonMonths
    \/ CallValidateScenarioInputs
    \/ CallValidateDateInputs
    \/ CallCalculateScenarios
    \/ Done

Spec == Init /\ [][Next]_vars

\* ------------------------------------------------- concurrent requests
\* Two callers run calculate_all_scenarios_excel on the module-level
\* portfolio_calculator of app.py at the same time. Each call has its own
\* frame: the arguments, the position in the first loop, the local list
\* cashflow_fv_details, the scenarios still to do and the local dict results.
\* A step is one iteration of a loop; steps of the two calls interleave in
\* any order. overlapped records that the other call was running at one of
\* this call's steps.

\* the arguments of the concurrent calls
ConcurrentCashflows == {<<3, 0>>, <<-2, 200>>}

ConcurrentArgs ==
    [beginning_mv : BeginningMVs, start_date : {0}, end_date : {365},
     scenarios : {m \in ScenarioMaps :
                     DOMAIN m \in {{"downside", "base"}, {"base", "upside"}}},
     cashflows : {cfs \in CashflowLists :
                     \A i \in 1..Len(cfs) :
                         <<cfs[i].amount, cfs[i].cashflow_date>> \in ConcurrentCashflows}]

\* scenarios.items() in the order the keys were inserted, taken here as
\* the order downside, base, upside, stress
NamesInOrder(scenarios) ==
    SelectSeq(<<"downside", "base", "upside", "stress">>,
              LAMBDA name : name \in DOMAIN scenarios)

Running(frame) == frame.pc \in {"first_loop", "second_loop"}

\* the call begins: results = {} and cashflow_fv_details = [] are new
\* objects of this call
EnterFrame(a) ==
    [IdleFrame EXCEPT !.pc = IF Len(a.cashflows) = 0 THEN "second_loop"
                             ELSE "first_loop",
                      !.args = a,
                      !.pending = NamesInOrder(a.scenarios)]

\* a variant that keeps the list of detail rows in an attribute of the
\* calculator, emptied when a call begins its first loop
PrecomputeStep_DetailsInSelf(self, frame) ==
    LET cashflow == frame.args.cashflows[frame.i + 1]
        outcomes == DetailOutcomes(cashflow, frame.args.scenarios, frame.args.end_date)
        before   == IF frame.i = 0 THEN <<>> ELSE self.cashflow_fv_details
        details  == Append(before, CashflowFVItem(cashflow, outcomes))
    IN  IF FirstError(outcomes) # "none"
        THEN [calculator |-> self,
              frame |-> [frame EXCEPT !.pc = "raised", !.err = FirstError(outcomes)]]
        ELSE [calculator |-> [cashflow_fv_details |-> details],
              frame |-> [frame EXCEPT
                            !.i = @ + 1,
                            !.cashflow_fv_details = details,
                            !.pc = IF frame.i + 1 = Len(frame.args.cashflows)
                                   THEN "second_loop" ELSE "first_loop"]]

\* one iteration of the first loop: three future values and a new row
\* appended to the local list; an error leaves the call, for the loop is
\* outside the try. self is read for its methods only.
PrecomputeStep(self, frame) ==
    LET cashflow == frame.args.cashflows[frame.i + 1]
        outcomes == DetailOutcomes(cashflow, frame.args.scenarios, frame.args.end_date)
    IN  IF FirstError(outcomes) # "none"
        THEN [calculator |-> self,
              frame |-> [frame EXCEPT !.pc = "raised", !.err = FirstError(outcomes)]]
        ELSE [calculator |-> self,
              frame |-> [frame EXCEPT
                            !.i = @ + 1,
                            !.cashflow_fv_details =
                                Append(@, CashflowFVItem(cashflow, outcomes)),
                            !.pc = IF frame.i + 1 = Len(frame.args.cashflows)
                                   THEN "second_loop" ELSE "first_loop"]]

\* one iteration of the second loop: the result of the next scenario is put
\* in the local dict, or its error is logged and the scenario passed over
ScenarioStep(self, frame) ==
    LET name    == Head(frame.pending)
        outcome == ScenarioOutcome(frame.args.beginning_mv, frame.args.start_date,
                                   frame.args.end_date, name,
                                   frame.args.scenarios[name],
                                   frame.cashflow_fv_details)
    IN  [calculator |-> self,
         frame |-> [frame EXCEPT
                       !.pending = Tail(@),
                       !.results =
                           IF outcome.err # "none" THEN @
                           ELSE [n \in DOMAIN @ \cup {name} |->
                                    IF n = name THEN outcome.val ELSE @[n]]]]

\* the steps of request r leave the state of the sequential calls alone
Steps(r, calculator_after, frame_after) ==
    /\ calculator' = calculator_after
    /\ requests' = [requests EXCEPT
                       ![r] = [frame_after EXCEPT
                                  !.overlapped =
                                      \/ @
                                      \/ \E o \in Requests \ {r} :
                                             Running(requests[o])]]
    /\ UNCHANGED <<method, args, raised, returned, after, db, calls, caught, clock>>

Enter(r) ==
    /\ requests[r].pc = "idle"
    /\ \E a \in ConcurrentArgs : Steps(r, calculator, EnterFrame(a))

FirstLoop(r) ==
    /\ requests[r].pc = "first_loop"
    /\ LET step == PrecomputeStep(calculator, requests[r])
       IN  Steps(r, step.calculator, step.frame)

SecondLoop(r) ==
    /\ requests[r].pc = "second_loop"
    /\ requests[r].pending # <<>>
    /\ LET step == ScenarioStep(calculator, requests[r])
       IN  Steps(r, step.calculator, step.frame)

\* return results
Return(r) ==
    /\ requests[r].pc = "second_loop"
    /\ requests[r].pending = <<>>
    /\ Steps(r, calculator, [requests[r] EXCEPT !.pc = "returned"])

\* the caller has the result or the error; the frame is gone
Leave(r) ==
    /\ requests[r].pc \in {"returned", "raised"}
    /\ Steps(r, calculator, IdleFrame)

ConcurrentNext ==
    \/ \E r \in Requests : Enter(r)
    \/ \E r \in Requests : FirstLoop(r)
    \/ \E r \in Requests : SecondLoop(r)
    \/ \E r \in Requests : Return(r)
    \/ \E r \in Requests : Leave(r)

ConcurrentSpec == Init /\ [][ConcurrentNext]_vars

\* ------------------------------------------------------------ properties
Returned(m) == method = m /\ raised = "none"

\* C1: every ScenarioResult returned by calculate_scenario_excel, and every
\* one in the mapping returned by calculate_all_scenarios_excel, has
\* total_fv equal to portfolio_fv + cashflow_fv.
C1_Additivity ==
    /\ Returned("calculate_scenario_excel") =>
          returned.total_fv = NumAdd(returned.portfolio_fv, returned.cashflow_fv)
    /\ Returned("calculate_all_scenarios_excel") =>
          \A name \in DOMAIN returned :
              returned[name].total_fv =
                  NumAdd(returned[name].portfolio_fv, returned[name].cashflow_fv)

\* a returned mapping with a scenario whose portfolio and cashflow parts are
\* both non-zero, whose total differs from either part and holds a value
\* compounded over a fraction of a year
C1_Witness ==
    /\ Returned("calculate_all_scenarios_excel")
    /\ \E name \in DOMAIN returned :
          /\ returned[name].portfolio_fv # Zero
          /\ returned[name].cashflow_fv # Zero
          /\ returned[name].total_fv # returned[name].portfolio_fv
          /\ returned[name].total_fv # returned[name].cashflow_fv
          /\ \E t \in returned[name].total_fv : t.k # 0

\* the future value of each cashflow of a list at a rate, zero amounts
\* included
GrownCashflows(cashflows, annual_rate, end_date) ==
    [i \in 1..Len(cashflows) |->
        calculate_cashflow_future_value_excel(cashflows[i], annual_rate, end_date)]

\* C2: for every scenario of the mapping passed to
\* calculate_all_scenarios_excel, whatever its name, the cashflow_fv of its
\* result is the sum over the cashflows of the amount grown at that
\* scenario's rate to end_date.
C2_CashflowFvIsSumForEveryName ==
    Returned("calculate_all_scenarios_excel") =>
        \A name \in DOMAIN returned :
            LET grown == GrownCashflows(args.cashflows, args.scenarios[name],
                                        args.end_date)
            IN  FirstError(grown) = "none" =>
                    returned[name].cashflow_fv = SumVals(grown, Len(grown))

\* C3: calculate_cashflow_future_value_excel returns exactly the amount of a
\* cashflow dated at or after end_date, for every rate, and raises nothing.
C3_HorizonClamp ==
    ( /\ method = "calculate_cashflow_future_value_excel"
      /\ args.cashflow.cashflow_date # NoDate
      /\ args.cashflow.cashflow_date >= args.end_date )
    => /\ raised = "none"
       /\ returned = NumOfInt(args.cashflow.amount)

\* a non-zero cashflow dated after end_date, at the rate -100 at which
\* compounding over the negative span would raise
C3_Witness ==
    /\ Returned("calculate_cashflow_future_value_excel")
    /\ args.cashflow.cashflow_date # NoDate
    /\ args.cashflow.cashflow_date > args.end_date
    /\ args.cashflow.amount # 0
    /\ args.annual_rate = -100

\* C4: calculate_future_value_excel_formula with rate 0 returns the present
\* value unchanged for every date pair, start_date > end_date included, and
\* raises nothing.
C4_ZeroRateInvariance ==
    (method = "calculate_future_value_excel_formula" /\ args.annual_rate = 0)
    => /\ raised = "none"
       /\ returned = NumOfInt(args.present_value)

\* a zero-rate call over a negative span with a non-zero present value
C4_Witness ==
    /\ Returned("calculate_future_value_excel_formula")
    /\ args.annual_rate = 0
    /\ args.start_date > args.end_date
    /\ args.present_value # 0

\* C5: calculate_future_value_excel_formula with a non-zero rate and
\* start_date = end_date returns the present value.
C5_ZeroElapsedInvariance ==
    ( /\ method = "calculate_future_value_excel_formula"
      /\ args.annual_rate # 0
      /\ args.start_date = args.end_date )
    => /\ raised = "none"
       /\ returned = NumOfInt(args.present_value)

\* a zero-span call at a rate of -100 or less (base 0.0 or negative) with a
\* non-zero present value
C5_Witness ==
    /\ Returned("calculate_future_value_excel_formula")
    /\ args.annual_rate <= -100
    /\ args.start_date = args.end_date
    /\ args.present_value # 0

\* C6: calculate_scenario_excel fails with InvalidPeriod whenever
\* start_date >= end_date, and returns no ScenarioResult for such a period.
C6_InvalidPeriodRejected ==
    (method = "calculate_scenario_excel" /\ args.start_date >= args.end_date)
    => raised = "InvalidPeriod"

\* C7: calculate_scenario_excel fails with DomainError, returning no
\* ScenarioResult, whenever annual_rate <= -100 (stated here over a valid
\* period, where no other error of the claim's taxonomy applies).
C7_DomainErrorRaised ==
    ( /\ method = "calculate_scenario_excel"
      /\ args.start_date < args.end_date
      /\ args.annual_rate <= -PercentDivisor )
    => raised = "DomainError"

\* C8: calculate_all_scenarios_excel called with {downside: -150, base: 7,
\* upside: 15} over a valid period returns a mapping whose key set is
\* exactly {base, upside}, and no exception escapes.
C8_PartialFailureExample ==
    ( /\ method = "calculate_all_scenarios_excel"
      /\ args.start_date < args.end_date
      /\ args.scenarios = [downside |-> -150, base |-> 7, upside |-> 15] )
    => /\ raised = "none"
       /\ DOMAIN returned = {"base", "upside"}

\* the computation attributable to a scenario's rate fails: the portfolio
\* valuation at that rate, or the precomputation of some cashflow at that
\* rate (the first loop computes the rates of downside, base and upside)
ScenarioFails(a, name) ==
    \/ calculate_future_value_excel_formula(
           a.beginning_mv, a.scenarios[name], a.start_date, a.end_date).err # "none"
    \/ /\ name \in {"downside", "base", "upside"}
       /\ FirstError(GrownCashflows(a.cashflows, a.scenarios[name], a.end_date)) # "none"

\* C9: when the computation of one scenario fails at any step of
\* calculate_all_scenarios_excel, the precomputation included, while that of
\* another scenario does not, the call does not raise and returns a mapping
\* that omits exactly the failed scenarios.
C9_FailureOmitsOnlyThatScenario ==
    ( /\ method = "calculate_all_scenarios_excel"
      /\ \E name \in DOMAIN args.scenarios : ScenarioFails(args, name)
      /\ \E name \in DOMAIN args.scenarios : ~ScenarioFails(args, name) )
    => /\ raised = "none"
       /\ DOMAIN returned =
              {name \in DOMAIN args.scenarios : ~ScenarioFails(args, name)}

\* C10: the itemization attached to the results of
\* calculate_all_scenarios_excel has one row per non-zero-amount input
\* cashflow and none for a zero-amount one.
C10_ZeroAmountsNotItemized ==
    Returned("calculate_all_scenarios_excel") =>
        \A name \in DOMAIN returned :
            LET rows == returned[name].cashflow_details[1]
            IN  /\ Len(rows) =
                      Cardinality({i \in 1..Len(args.cashflows) :
                                      args.cashflows[i].amount # 0})
                /\ \A i \in 1..Len(rows) : rows[i].amount # 0

\* C11: all results returned by one call of calculate_all_scenarios_excel
\* carry the same itemization: one row per input cashflow, in input order,
\* each with the amount and description of its cashflow.
C11_SharedItemization ==
    Returned("calculate_all_scenarios_excel") =>
        /\ \A name \in DOMAIN returned :
               LET rows == returned[name].cashflow_details[1]
               IN  /\ Len(rows) = Len(args.cashflows)
                   /\ \A i \in 1..Len(rows) :
                          /\ rows[i].amount = args.cashflows[i].amount
                          /\ rows[i].description = args.cashflows[i].description
        /\ \A n1 \in DOMAIN returned, n2 \in DOMAIN returned :
               returned[n1].cashflow_details = returned[n2].cashflow_details

\* two results returned over two cashflows of different amounts
C11_Witness ==
    /\ Returned("calculate_all_scenarios_excel")
    /\ Cardinality(DOMAIN returned) >= 2
    /\ Len(args.cashflows) = 2
    /\ args.cashflows[1].amount # args.cashflows[2].amount

StandardNames == {"downside", "base", "upside"}

\* C12: for downside, base and upside, when neither call fails, the result
\* of calculate_all_scenarios_excel for a scenario has the portfolio_fv,
\* cashflow_fv and total_fv that calculate_scenario_excel computes for the
\* same beginning value, dates, rate and cashflows.
C12_SharedEqualsDirect ==
    Returned("calculate_all_scenarios_excel") =>
        \A name \in DOMAIN returned \cap StandardNames :
            LET direct == calculate_scenario_excel(
                              args.beginning_mv, args.start_date, args.end_date,
                              args.scenarios[name], args.cashflows, name)
            IN  direct.err = "none" =>
                    /\ returned[name].portfolio_fv = direct.val.portfolio_fv
                    /\ returned[name].cashflow_fv = direct.val.cashflow_fv
                    /\ returned[name].total_fv = direct.val.total_fv

\* an upside result over a zero-amount cashflow, which only the direct call
\* skips, and a cashflow grown over part of a year
C12_Witness ==
    /\ Returned("calculate_all_scenarios_excel")
    /\ "upside" \in DOMAIN returned
    /\ \E i \in 1..Len(args.cashflows) : args.cashflows[i].amount = 0
    /\ \E t \in returned["upside"].cashflow_fv : t.k # 0

C14_Case ==
    /\ Returned("calculate_all_scenarios_excel")
    /\ args.beginning_mv > 0
    /\ args.start_date < args.end_date
    /\ StandardNames \subseteq DOMAIN args.scenarios
    /\ -PercentDivisor < args.scenarios["downside"]
    /\ args.scenarios["downside"] < args.scenarios["base"]
    /\ args.scenarios["base"] < args.scenarios["upside"]
    /\ StandardNames \subseteq DOMAIN returned

OtherMonths == {1, 7}

\* month indices for the cashflows of a list: the same other month on every
\* one, or a different month on each
MonthPlans(n) == {[i \in 1..n |-> 7], [i \in 1..n |-> i + 1]}

\* the same cashflows with the month fields replaced by months[i]
WithMonths(cashflows, months) ==
    [i \in 1..Len(cashflows) |-> [cashflows[i] EXCEPT !.month = months[i]]]

\* the future values a ScenarioResult carries, without its labels
FutureValues(result) ==
    [portfolio_fv |-> result.portfolio_fv,
     cashflow_fv  |-> result.cashflow_fv,
     total_fv     |-> result.total_fv,
     cashflow_fvs |->
        IF result.cashflow_details = None THEN None
        ELSE Some([i \in 1..Len(result.cashflow_details[1]) |->
                     [fv_downside |-> result.cashflow_details[1][i].fv_downside,
                      fv_base     |-> result.cashflow_details[1][i].fv_base,
                      fv_upside   |-> result.cashflow_details[1][i].fv_upside]])]

HasHolding(database, group_code, d) ==
    \E r \in database.ClientHolding : r.group_code = group_code /\ r.date = d

\* C15: when get_market_values returns and the database holds no market
\* value of the group for the start date, or for the end date, the value
\* it returns for that date is not 0.
C15_NoSilentZero ==
    Returned("get_market_values") =>
        /\ ~HasHolding(db, args.group_code, args.start_date) => returned[1] # 0
        /\ ~HasHolding(db, args.group_code, args.end_date) => returned[2] # 0

\* the error pyodbc or pandas raises on a database in that mode
DatabaseError(database) ==
    IF database.mode = "unreachable" THEN "pyodbc.Error" ELSE "DatabaseError"

\* C16: when the connection or the query fails inside get_market_values or
\* get_cashflows, the call raises that same error, returns no value, and
\* has made one call of call_db with one connection attempt and at most one
\* execution of the query.
C16_DbFailurePropagatesOnce ==
    ( /\ method \in {"get_market_values", "get_cashflows"}
      /\ db.mode # "up" )
    => /\ raised = DatabaseError(db)
       /\ returned = <<>>
       /\ caught = {}
       /\ Count(calls, "call_db") = 1
       /\ Count(calls, "connect") = 1
       /\ Count(calls, "read_sql_query") <= 1

\* get_cashflows on a database that has cashflows of the group but rejects
\* the query
C16_Witness ==
    /\ method = "get_cashflows"
    /\ db.mode = "rejects"
    /\ raised = "DatabaseError"
    /\ \E r \in db.ClientCashFlow : r.group_code = args.group_code
    /\ Count(calls, "read_sql_query") = 1

CalculatorMethods ==
    {"calculate_future_value_excel_formula", "calculate_cashflow_future_value_excel",
     "calculate_scenario_excel", "calculate_all_scenarios_excel"}

DataManagerMethods ==
    {"get_market_values", "get_cashflows", "validate_group_code",
     "get_available_date_range", "calculate_time_horizon_months"}

\* C17: no operation of the calculator or of the data manager other than
\* calculate_all_scenarios_excel catches an error without raising it again.
C17_OnlyOrchestratorSwallows ==
    method \in (CalculatorMethods \cup DataManagerMethods)
                   \ {"calculate_all_scenarios_excel"}
    => caught = {}

\* what the handler can reach of the engine: the methods of the data
\* manager and of the calculator, and the database behind them
EngineEvents ==
    DataManagerMethods \cup CalculatorMethods
    \cup {"calculate_all_scenarios", "call_db", "connect", "read_sql_query", "close"}

\* C19: in a request of calculate_scenarios whose dates are given, if
\* validate_date_inputs or validate_scenario_inputs reports an error, the
\* handler returns the error message made of the errors of the first
\* validator that failed and the request reaches nothing of the engine; in
\* every request both validators have run before anything of the engine.
C19_ValidationPrecedesEngine ==
    ( /\ method = "calculate_scenarios"
      /\ args.n_clicks # NoClicks
      /\ args.start_date # NoDate /\ args.end_date # NoDate )
    => LET date_validation ==
               validate_date_inputs(args.group_code, args.start_date,
                                    args.end_date, clock)
           scenario_validation ==
               validate_scenario_inputs(args.downside_rate, args.base_rate,
                                        args.upside_rate)
       IN  /\ (~date_validation.valid \/ ~scenario_validation.valid) =>
                 /\ returned = create_error_message(
                                   IF ~date_validation.valid
                                   THEN date_validation.errors
                                   ELSE scenario_validation.errors)
                 /\ \A i \in 1..Len(calls) : calls[i] \notin EngineEvents
           /\ \A i \in 1..Len(calls) :
                 calls[i] \in EngineEvents =>
                     /\ \E j \in 1..(i - 1) : calls[j] = "validate_date_inputs"
                     /\ \E j \in 1..(i - 1) : calls[j] = "validate_scenario_inputs"

\* a request with a valid group and period whose rates are out of order:
\* the second validator reports the errors
C19_Witness ==
    /\ method = "calculate_scenarios"
    /\ args.n_clicks # NoClicks
    /\ args.group_code = "PROG-001"
    /\ args.start_date = 0 /\ args.end_date = 200
    /\ clock = 100
    /\ args.downside_rate = 0 /\ args.base_rate = 0
    /\ returned.kind = "error_message"
    /\ Len(returned.errors) > 0
    /\ calls = <<"validate_date_inputs", "validate_scenario_inputs">>

\* C23: validate_scenario_inputs returns valid = TRUE exactly when the three
\* rates are present, each lies in [RateMin, RateMax] and
\* downside < base < upside; and valid is TRUE exactly when errors is empty.
C23_ScenarioValidity ==
    method = "validate_scenario_inputs" =>
        LET rates == <<args.downside_rate, args.base_rate, args.upside_rate>>
        IN  /\ returned.valid <=>
                  /\ \A i \in 1..3 : rates[i] # NoRate
                  /\ \A i \in 1..3 : /\ FloatGeq(rates[i], RateMin)
                                       /\ FloatGeq(RateMax, rates[i])
                  /\ FloatLess(args.downside_rate, args.base_rate)
                  /\ FloatLess(args.base_rate, args.upside_rate)
            /\ returned.valid <=> (Len(returned.errors) = 0)

\* C24: validate_date_inputs returns valid = FALSE whenever both dates are
\* present and start_date >= end_date, whatever the group code and today.
C24_EmptyPeriodRefused ==
    ( /\ method = "validate_date_inputs"
      /\ args.start_date # NoDate /\ args.end_date # NoDate
      /\ args.start_date >= args.end_date )
    => ~returned.valid

\* a period of no days with a good group code and dates well within the
\* range around today: only the period tests can refuse it
C24_Witness ==
    /\ method = "validate_date_inputs"
    /\ args.group_code = "PROG-001"
    /\ args.start_date = 200 /\ args.end_date = 200
    /\ clock = 100
    /\ ~returned.valid

\* C25: whenever validate_scenario_inputs accepts the three rates, each of
\* them is above -100, so that the base 1 + rate/100 is positive.
C25_AcceptedRatesAboveMinusHundred ==
    (method = "validate_scenario_inputs" /\ returned.valid) =>
        /\ FloatGreater(args.downside_rate, -PercentDivisor)
        /\ FloatGreater(args.base_rate, -PercentDivisor)
        /\ FloatGreater(args.upside_rate, -PercentDivisor)

\* C26: the keys of the mapping calculate_all_scenarios_excel returns are
\* keys of the scenarios it was given, all of them when the second loop
\* caught no error, and every entry carries its key as scenario_name and
\* the input rate of that key as rate.
C26_KeysAndLabels ==
    Returned("calculate_all_scenarios_excel") =>
        /\ DOMAIN returned \subseteq DOMAIN args.scenarios
        /\ caught = {} => DOMAIN returned = DOMAIN args.scenarios
        /\ \A name \in DOMAIN returned :
              /\ returned[name].scenario_name = name
              /\ returned[name].rate = args.scenarios[name]

\* a call in which one scenario overflowed and the others were returned
C26_Witness ==
    /\ Returned("calculate_all_scenarios_excel")
    /\ caught = {"OverflowError"}
    /\ DOMAIN returned # DOMAIN args.scenarios
    /\ {"downside", "stress"} \subseteq DOMAIN returned

C28_MonthWithinHorizon ==
    ( /\ Returned("get_cashflows")
      /\ args.start_date < args.end_date )
    => \A i \in 1..Len(returned) :
           returned[i].month
               <= calculate_time_horizon_months(args.start_date, args.end_date).val

\* C29: call_db opens exactly one connection per query; when the connection
\* was opened it is closed exactly once, as the last thing call_db does,
\* whether the query succeeded or failed, and a failed query raises; when
\* opening fails nothing is closed and the error of the connection attempt
\* is raised.
C29_ConnectionClosed ==
    method = "call_db" =>
        /\ Count(calls, "connect") = 1
        /\ IF db.mode = "unreachable"
           THEN /\ raised = "pyodbc.Error"
                /\ Count(calls, "close") = 0
                /\ Count(calls, "read_sql_query") = 0
           ELSE /\ Count(calls, "close") = 1
                /\ calls[Len(calls)] = "close"
                /\ (db.mode = "rejects") <=> (raised # "none")

C29_Witness ==
    /\ method = "call_db"
    /\ db.mode = "rejects"
    /\ raised = "DatabaseError"
    /\ calls = <<"call_db", "connect", "read_sql_query", "close">>

\* C30: calculate_time_horizon_months returns an integer of at least 1 for
\* every pair of dates, an end_date not after start_date and a missing date
\* included; every CashflowItem that get_cashflows returns has a month of at
\* least 1, and so has the item built from any row of the table for any
\* start_date, rows dated in a month before start_date included.
C30_MonthsAtLeastOne ==
    /\ method = "calculate_time_horizon_months" =>
          /\ raised = "none"
          /\ returned \in Nat
          /\ returned >= 1
    /\ Returned("get_cashflows") =>
          /\ \A i \in 1..Len(returned) : returned[i].month >= 1
          /\ \A row \in CashFlowRows :
                /\ CashflowItemOfRow(row, args.start_date).month \in Nat
                /\ CashflowItemOfRow(row, args.start_date).month >= 1

C30_Witness ==
    /\ Returned("calculate_time_horizon_months")
    /\ args.start_date = 365
    /\ args.end_date = 0
    /\ returned = 1

\* C22: a request that was clicked, passes validate_date_inputs and
\* validate_scenario_inputs and whose market values were read is valued by
\* calculate_all_scenarios_excel, exactly once, and the handler displays
\* those results and no error message.
C22_ValuedByDayCountPath ==
    ( /\ method = "calculate_scenarios"
      /\ args.n_clicks # NoClicks
      /\ args.start_date # NoDate
      /\ args.end_date # NoDate
      /\ validate_date_inputs(args.group_code, args.start_date, args.end_date,
                              clock).valid
      /\ validate_scenario_inputs(args.downside_rate, args.base_rate,
                                  args.upside_rate).valid
      /\ Count(calls, "get_market_values") = 1
      /\ db.mode = "up" )
    => /\ Count(calls, "calculate_all_scenarios_excel") = 1
       /\ returned.kind # "error_message"

\* C21: under every interleaving of the steps of two concurrent calls of
\* calculate_all_scenarios_excel on the shared calculator, a call that
\* returns has the mapping it returns when run alone on its own arguments,
\* a call that raises has the error it raises when run alone, and the
\* calculator has gained no attribute.
C21_Isolation ==
    /\ calculator = NoAttributes
    /\ \A r \in Requests :
          LET a     == requests[r].args
              alone == calculate_all_scenarios_excel(
                           a.beginning_mv, a.start_date, a.end_date,
                           a.scenarios, a.cashflows)
          IN  /\ requests[r].pc = "returned" =>
                    /\ alone.err = "none"
                    /\ requests[r].results = alone.val
              /\ requests[r].pc = "raised" => requests[r].err = alone.err

C21_Witness ==
    /\ \A r \in Requests : /\ requests[r].pc = "returned"
                           /\ requests[r].overlapped
                           /\ DOMAIN requests[r].results # {}
                           /\ Len(requests[r].cashflow_fv_details) = 2
    /\ requests[1].args.cashflows # requests[2].args.cashflows
    /\ requests[1].args.scenarios # requests[2].args.scenarios

====
